---- MODULE Spec2Model ----
(***************************************************************************)
(* Model of the node HTTP API client (node_api_client.go): the generic     *)
(* request/response cycle NodeAPI.do, the envelope decoding of             *)
(* interpretBody, the HTTP-status-to-error table and the endpoint methods. *)
(*                                                                         *)
(* A call is a small process: it builds its request, hands it to the       *)
(* transport, reads the body, decodes one of the two envelopes and         *)
(* returns.  The node and the network are the environment: they choose the *)
(* status, the body, whether the body arrives, and whether the transport   *)
(* fails.  encoding/json is modelled by what it does to its target: a      *)
(* syntax error is found before anything is written, a value of the wrong  *)
(* type is skipped and reported while the other fields are still written,  *)
(* and an interface holding anything but a non-nil pointer is replaced     *)
(* instead of being decoded into.                                          *)
(***************************************************************************)
EXTENDS Integers, Sequences, FiniteSets, TLC

\* ------------------------------------------------------------------ bounds
\* longest hash list handed to an endpoint, and longest list a node answers
MaxHashes == 2
\* number of goroutines sharing one client in the concurrent specification
NumCallers == 2

\* ------------------------------------------------------- net/http statuses
StatusOK == 200
StatusCreated == 201
StatusBadRequest == 400
StatusUnauthorized == 401
StatusNotFound == 404
StatusInternalServerError == 500
StatusNotImplemented == 501

\* ------------------------------------------------------------------ errors
\* A Go error is the chain of its layers, outermost first; nil is the empty
\* chain.  fmt.Errorf with %w puts one layer in front of the wrapped chain.
NoErr == <<>>

New(text) == <<[fmt |-> text, args |-> <<>>]>>

Errorf(format, args, wrapped) == <<[fmt |-> format, args |-> args]>> \o wrapped

\* errors.Is: target is err itself or one of the chains err wraps
Is(err, target) ==
    \E i \in 1..Len(err) : SubSeq(err, i, Len(err)) = target

ErrHTTPBadRequest == New("bad request")
ErrHTTPInternalServerError == New("internal server error")
ErrHTTPNotFound == New("not found")
ErrHTTPUnauthorized == New("unauthorized")
ErrHTTPUnknownError == New("unknown error")
ErrHTTPNotImplemented == New("operation not implemented/supported/available")

\* a variant of the status table with two entries exchanged
httpCodeToErrSwapped ==
    (StatusBadRequest :> ErrHTTPBadRequest)
    @@ (StatusInternalServerError :> ErrHTTPInternalServerError)
    @@ (StatusNotFound :> ErrHTTPUnauthorized)
    @@ (StatusUnauthorized :> ErrHTTPNotFound)
    @@ (StatusNotImplemented :> ErrHTTPNotImplemented)

\* the table from HTTP status to sentinel error
httpCodeToErr ==
    (StatusBadRequest :> ErrHTTPBadRequest)
    @@ (StatusInternalServerError :> ErrHTTPInternalServerError)
    @@ (StatusNotFound :> ErrHTTPNotFound)
    @@ (StatusUnauthorized :> ErrHTTPUnauthorized)
    @@ (StatusNotImplemented :> ErrHTTPNotImplemented)

contentTypeJSON == "application/json"

\* --------------------------------------------------------------- JSON text
\* A body is either text that is not JSON at all, or a JSON value.
JInvalid == [t |-> "invalid"]
JNull == [t |-> "null"]
JStr(s) == [t |-> "str", s |-> s]
JBool(b) == [t |-> "bool", b |-> b]
JNum(n) == [t |-> "num", n |-> n]
JArr(a) == [t |-> "arr", a |-> a]
JObj(o) == [t |-> "obj", o |-> o]

\* the two errors json.Unmarshal reports
SyntaxError == New("json: syntax error")
UnmarshalTypeError == New("json: cannot unmarshal value into Go value")

\* --------------------------------------------------------- response types
NodeInfoResponse ==
    [name |-> "string", version |-> "string", isHealthy |-> "bool",
     operatingNetwork |-> "string", peers |-> "int",
     coordinatorAddress |-> "string", isSynced |-> "bool",
     latestMilestoneHash |-> "string", latestMilestoneIndex |-> "uint64",
     latestSolidMilestoneHash |-> "string",
     latestSolidMilestoneIndex |-> "uint64", pruningIndex |-> "uint64",
     time |-> "uint64", features |-> "[]string"]

NodeTipsResponse == [tip1 |-> "string", tip2 |-> "string"]

NodeObjectReferencedResponse ==
    [isReferencedByMilestone |-> "bool", milestoneIndex |-> "uint64",
     milestoneTimestamp |-> "uint64"]

NodeOutputResponse == [address |-> "string", amount |-> "uint64", spent |-> "bool"]

httperrresponse == [code |-> "int", message |-> "string"]

\* Go's zero value of a field type, and of a struct type
ZeroOf(type) ==
    CASE type = "string" -> ""
      [] type = "bool" -> FALSE
      [] type = "[]string" -> <<>>
      [] OTHER -> 0

ZeroStruct(types) == [f \in DOMAIN types |-> ZeroOf(types[f])]

\* ------------------------------------------------------------ json.Unmarshal
\* does the JSON value fit a field of this Go type
Fits(type, j) ==
    CASE type = "string" -> j.t = "str"
      [] type = "bool" -> j.t = "bool"
      [] type = "int" -> j.t = "num"
      [] type = "uint64" -> j.t = "num" /\ j.n >= 0
      [] OTHER -> FALSE

ScalarOf(j) ==
    CASE j.t = "str" -> j.s
      [] j.t = "bool" -> j.b
      [] OTHER -> j.n

\* Decoding one field: null leaves scalars alone and empties a slice; a
\* fitting value is stored; a value of the wrong type is skipped and
\* reported.  A slice is refilled element by element, in place.
DecodeField(type, j, cur) ==
    IF j.t = "null"
      THEN [ok |-> TRUE, v |-> IF type = "[]string" THEN <<>> ELSE cur]
    ELSE IF type = "[]string"
      THEN IF j.t # "arr"
             THEN [ok |-> FALSE, v |-> cur]
             ELSE [ok |-> \A i \in 1..Len(j.a) : j.a[i].t \in {"str", "null"},
                   v |-> [i \in 1..Len(j.a) |->
                            IF j.a[i].t = "str" THEN j.a[i].s
                            ELSE IF i <= Len(cur) THEN cur[i] ELSE ""]]
    ELSE IF Fits(type, j)
      THEN [ok |-> TRUE, v |-> ScalarOf(j)]
      ELSE [ok |-> FALSE, v |-> cur]

\* Decoding a JSON value into a struct: every known key is decoded into its
\* field, the first type error is remembered, and decoding goes on.
DecodeStruct(types, j, cur) ==
    IF j.t = "null" THEN [err |-> NoErr, val |-> cur]
    ELSE IF j.t # "obj" THEN [err |-> UnmarshalTypeError, val |-> cur]
    ELSE LET known == DOMAIN types \cap DOMAIN j.o
         IN [err |-> IF \A f \in known : DecodeField(types[f], j.o[f], cur[f]).ok
                       THEN NoErr ELSE UnmarshalTypeError,
             val |-> [f \in DOMAIN types |->
                        IF f \in known
                          THEN DecodeField(types[f], j.o[f], cur[f]).v
                          ELSE cur[f]]]

TypeOf(name) ==
    CASE name = "NodeInfoResponse" -> NodeInfoResponse
      [] name = "NodeTipsResponse" -> NodeTipsResponse
      [] name = "NodeObjectReferencedResponse" -> NodeObjectReferencedResponse
      [] name = "NodeOutputResponse" -> NodeOutputResponse
      [] OTHER -> httperrresponse

\* ----------------------------------------------------------- decode targets
\* What a caller hands to do() as resObj: nil, a pointer to a struct, or a
\* bare (non-pointer) value such as a nil slice.
NilObj == [kind |-> "nil", type |-> "", st |-> <<>>, sl |-> <<>>]
PtrObj(type, st) == [kind |-> "ptr", type |-> type, st |-> st, sl |-> <<>>]
ValObj(type) == [kind |-> "val", type |-> type, st |-> <<>>, sl |-> <<>>]

\* json.Unmarshal(resBody, &httpokresponse{Data: decodeTo})
UnmarshalOK(body, decodeTo) ==
    IF body.t = "invalid" THEN [err |-> SyntaxError, decodeTo |-> decodeTo]
    ELSE IF body.t = "null" THEN [err |-> NoErr, decodeTo |-> decodeTo]
    ELSE IF body.t # "obj" THEN [err |-> UnmarshalTypeError, decodeTo |-> decodeTo]
    ELSE IF "data" \notin DOMAIN body.o THEN [err |-> NoErr, decodeTo |-> decodeTo]
    ELSE IF decodeTo.kind # "ptr"
      \* Data holds no pointer: the field itself is overwritten with a
      \* generic value and the caller's variable is never reached
      THEN [err |-> NoErr, decodeTo |-> decodeTo]
    ELSE LET r == DecodeStruct(TypeOf(decodeTo.type), body.o.data, decodeTo.st)
         IN [err |-> r.err, decodeTo |-> [decodeTo EXCEPT !.st = r.val]]

\* json.Unmarshal(resBody, &httperrresponse{})
UnmarshalErr(body) ==
    IF body.t = "invalid" THEN [err |-> SyntaxError, Error |-> ZeroStruct(httperrresponse)]
    ELSE IF body.t = "null" THEN [err |-> NoErr, Error |-> ZeroStruct(httperrresponse)]
    ELSE IF body.t # "obj" THEN [err |-> UnmarshalTypeError, Error |-> ZeroStruct(httperrresponse)]
    ELSE IF "error" \notin DOMAIN body.o THEN [err |-> NoErr, Error |-> ZeroStruct(httperrresponse)]
    ELSE LET r == DecodeStruct(httperrresponse, body.o.error, ZeroStruct(httperrresponse))
         IN [err |-> r.err, Error |-> r.val]

\* ------------------------------------------------------------ interpretBody
\* a variant that takes only 200 for a success
IsSuccessStatusOnlyOK(code) == code = StatusOK

\* the status test that selects the envelope
IsSuccessStatus(code) == code = StatusOK \/ code = StatusCreated

\* the error for a status whose error envelope was decoded
StatusError(res, message) ==
    Errorf("%w: url %s, error message: %s", <<res.URL, message>>,
           IF res.StatusCode \in DOMAIN httpCodeToErr
             THEN httpCodeToErr[res.StatusCode]
             ELSE ErrHTTPUnknownError)

\* a variant that does not check whether the error envelope decoded
interpretBodyIgnoringDecodeError(res, decodeTo) ==
    IF IsSuccessStatus(res.StatusCode)
      THEN LET okRes == UnmarshalOK(res.Body, decodeTo)
           IN [envelope |-> "ok", err |-> okRes.err, decodeTo |-> okRes.decodeTo]
    ELSE [envelope |-> "err",
          err |-> StatusError(res, UnmarshalErr(res.Body).Error.message),
          decodeTo |-> decodeTo]

\* a variant that decodes the success envelope before it tests the status
interpretBodyDecodeFirst(res, decodeTo) ==
    LET okRes == UnmarshalOK(res.Body, decodeTo)
        errRes == UnmarshalErr(res.Body)
    IN IF IsSuccessStatus(res.StatusCode)
         THEN [envelope |-> "ok", err |-> okRes.err, decodeTo |-> okRes.decodeTo]
       ELSE IF errRes.err # NoErr
         THEN [envelope |-> "err",
               err |-> Errorf("unable to read error from response body: %w",
                              <<>>, errRes.err),
               decodeTo |-> okRes.decodeTo]
       ELSE [envelope |-> "err", err |-> StatusError(res, errRes.Error.message),
             decodeTo |-> okRes.decodeTo]

\* The part of interpretBody after the body has been read: which envelope
\* was decoded, the error returned and the decode target afterwards.
interpretBody(res, decodeTo) ==
    IF IsSuccessStatus(res.StatusCode)
      THEN LET okRes == UnmarshalOK(res.Body, decodeTo)
           IN [envelope |-> "ok", err |-> okRes.err, decodeTo |-> okRes.decodeTo]
    ELSE LET errRes == UnmarshalErr(res.Body)
         IN IF errRes.err # NoErr
              THEN [envelope |-> "err",
                    err |-> Errorf("unable to read error from response body: %w",
                                   <<>>, errRes.err),
                    decodeTo |-> decodeTo]
              ELSE [envelope |-> "err",
                    err |-> StatusError(res, errRes.Error.message),
                    decodeTo |-> decodeTo]

\* ------------------------------------------------------------ query strings
HexDigits == <<"0", "1", "2", "3", "4", "5", "6", "7",
               "8", "9", "a", "b", "c", "d", "e", "f">>

\* hexadecimal text of a byte string, two digits per byte
RECURSIVE ToHex(_)
ToHex(bytes) ==
    IF bytes = <<>> THEN ""
    ELSE HexDigits[(Head(bytes) \div 16) + 1] \o HexDigits[(Head(bytes) % 16) + 1]
         \o ToHex(Tail(bytes))

HashesToHex(hashes) == [i \in 1..Len(hashes) |-> ToHex(hashes[i])]

\* strings.Join
RECURSIVE Join(_, _)
Join(elems, sep) ==
    IF elems = <<>> THEN ""
    ELSE IF Len(elems) = 1 THEN elems[1]
    ELSE elems[1] \o sep \o Join(Tail(elems), sep)

\* --------------------------------------------------------------- the client
\* base URLs a client is constructed with; the last one does not parse
BaseURLs == {"http://node:14265", "http://[node"}
HTTPClients == {"default", "custom"}

\* url.Parse inside http.NewRequest rejects an unterminated host bracket
URLParses(url) == url # "http://[node"

NewNodeAPI(baseURL, httpClient) == [BaseURL |-> baseURL, HTTPClient |-> httpClient]

\* ------------------------------------------------------------ endpoint calls
\* message hashes and output ids, shortened to one byte
Hashes == {<<10>>, <<255>>}

RECURSIVE SeqsUpTo(_, _)
SeqsUpTo(S, n) ==
    IF n = 0 THEN {<<>>}
    ELSE LET shorter == SeqsUpTo(S, n - 1)
         IN shorter \cup {Append(q, e) : q \in {r \in shorter : Len(r) = n - 1}, e \in S}

HashLists == SeqsUpTo(Hashes, MaxHashes)

\* one invocation of do(): the endpoint it serves and do's four arguments
DoCall(endpoint, hashes, method, route, reqObj, resObj) ==
    [endpoint |-> endpoint, hashes |-> hashes, method |-> method,
     route |-> route, reqObj |-> reqObj, resObj |-> resObj]

Info == DoCall("Info", <<>>, "GET", "/info", "nil",
               PtrObj("NodeInfoResponse", ZeroStruct(NodeInfoResponse)))

Tips == DoCall("Tips", <<>>, "GET", "/tips", "nil",
               PtrObj("NodeTipsResponse", ZeroStruct(NodeTipsResponse)))

MessagesByHash(hashes) ==
    DoCall("MessagesByHash", hashes, "GET",
           "/messages/by-hash?hashes=" \o Join(HashesToHex(hashes), ","),
           "nil", ValObj("JSONNodeMessages"))

AreMessagesReferencedByMilestone(hashes) ==
    DoCall("AreMessagesReferencedByMilestone", hashes, "GET",
           "/messages/by-hash/is-referenced-by-milestone?hashes="
               \o Join(HashesToHex(hashes), ","),
           "nil", ValObj("[]NodeObjectReferencedResponse"))

AreTransactionsReferencedByMilestone(hashes) ==
    DoCall("AreTransactionsReferencedByMilestone", hashes, "GET",
           "/transaction-messages/is-confirmed?hashes="
               \o Join(HashesToHex(hashes), ","),
           "nil", ValObj("[]NodeObjectReferencedResponse"))

OutputsByHash(utxosID) ==
    DoCall("OutputsByHash", utxosID, "GET",
           "/outputs/by-hash?hashes=" \o Join(HashesToHex(utxosID), ","),
           "nil", ValObj("[]NodeOutputResponse"))

\* a response object a direct caller of do() has used before
UsedInfo ==
    [ZeroStruct(NodeInfoResponse) EXCEPT !.name = "old", !.peers = 7,
                                         !.features = <<"old1", "old2">>]

\* direct uses of the generic cycle: with and without a request payload,
\* with and without a response object
GenericCalls ==
    {DoCall("do", <<>>, "POST", "/messages", reqObj, resObj) :
        reqObj \in {"nil", "payload", "unsupported"},
        resObj \in {NilObj, PtrObj("NodeInfoResponse", UsedInfo),
                    ValObj("[]NodeOutputResponse")}}

EndpointCalls ==
    {Info, Tips}
    \cup {MessagesByHash(h) : h \in HashLists}
    \cup {AreMessagesReferencedByMilestone(h) : h \in HashLists}
    \cup {AreTransactionsReferencedByMilestone(h) : h \in HashLists}
    \cup {OutputsByHash(h) : h \in HashLists}

AllCalls == EndpointCalls \cup GenericCalls

\* ------------------------------------------------------------------ the node
\* statuses a node answers with: the two success codes, the five mapped
\* codes, and two codes the table does not know
Statuses == {StatusOK, StatusCreated, 204, StatusBadRequest, StatusUnauthorized,
             StatusNotFound, 418, StatusInternalServerError, StatusNotImplemented}

RefEntry(referenced, index, timestamp) ==
    JObj([isReferencedByMilestone |-> JBool(referenced),
          milestoneIndex |-> JNum(index), milestoneTimestamp |-> JNum(timestamp)])

RefEntries == {RefEntry(TRUE, 5, 1600), RefEntry(FALSE, 0, 0)}

InfoBody ==
    JObj([data |-> JObj([name |-> JStr("hornet"), version |-> JStr("1.0"),
                         isHealthy |-> JBool(TRUE), peers |-> JNum(3),
                         latestMilestoneIndex |-> JNum(9),
                         features |-> JArr(<<JStr("pow")>>)])])

\* a body whose first fields fit and whose peers field has the wrong type
MistypedInfoBody ==
    JObj([data |-> JObj([name |-> JStr("hornet"), isHealthy |-> JBool(TRUE),
                         peers |-> JStr("many"),
                         features |-> JArr(<<JNum(1)>>)])])

TipsBody == JObj([data |-> JObj([tip1 |-> JStr("0a"), tip2 |-> JStr("ff")])])

ErrorBody(code, message) ==
    JObj([error |-> JObj([code |-> JNum(code), message |-> JStr(message)])])

Bodies ==
    {JInvalid, JNull, JArr(<<>>), JObj(<<>>),
     InfoBody, MistypedInfoBody, TipsBody,
     JObj([data |-> JStr("text")]), JObj([data |-> JNull]),
     ErrorBody(400, "invalid hash"),
     JObj([error |-> JObj([code |-> JStr("E1"), message |-> JStr("mistyped code")])]),
     JObj([error |-> JStr("plain text")])}
    \cup {JObj([data |-> JArr(entries)]) : entries \in SeqsUpTo(RefEntries, MaxHashes)}

\* what the transport hands back for one request: a response whose body
\* arrives completely, breaks off while being read, or never arrives
Response(status, body, delivery) ==
    [StatusCode |-> status, Body |-> body, delivery |-> delivery]

AllResponses ==
    {Response(s, b, "complete") : s \in Statuses, b \in Bodies}
    \cup {Response(s, JInvalid, d) : s \in Statuses, d \in {"broken", "never"}}

TransportErrors == {New("dial tcp: connection refused"), New("context deadline exceeded")}

ReadError == New("unexpected EOF")
MarshalError == New("json: unsupported type")
NewRequestError == New("parse: missing ']' in host")

\* ---------------------------------------------------------------------- do
\* do() up to the point where the request is handed to the transport:
\* marshal the payload, build the request, set the content type
BuildRequest(client, k) ==
    IF k.reqObj = "unsupported"
      THEN [err |-> MarshalError, req |-> <<>>]
    ELSE IF ~URLParses(client.BaseURL \o k.route)
      THEN [err |-> NewRequestError, req |-> <<>>]
    ELSE [err |-> NoErr,
          req |-> [Method |-> k.method, URL |-> client.BaseURL \o k.route,
                   HasBody |-> k.reqObj # "nil",
                   ContentType |-> IF k.reqObj # "nil" THEN contentTypeJSON ELSE ""]]

\* a variant that wraps the transport's error
TransportFailureWrapped(transportErr) ==
    Errorf("request failed: %w", <<>>, transportErr)

\* the error do() returns when HTTPClient.Do fails
TransportFailure(transportErr) == transportErr

\* a variant that never takes the early return
NoResponseRequestedNever(resObj) == FALSE

\* the test do() makes on resObj before it touches the response
NoResponseRequested(resObj) == resObj.kind = "nil"

\* a variant that keeps the response in one place shared by all calls
FrameShared(c) == 1

\* every invocation of do() has its own res
Frame(c) == c

\* what an endpoint method returns once do() has returned; ToMessages is
\* applied to the untouched JSONNodeMessages value and may itself fail
ToMessagesError == New("ToMessages failed")

NilResult(e) == [isNil |-> TRUE, st |-> <<>>, sl |-> <<>>, err |-> e]

EndpointReturns(k, doErr, resObj) ==
    IF doErr # NoErr THEN {NilResult(doErr)}
    ELSE IF k.endpoint \in {"Info", "Tips"}
      THEN {[isNil |-> FALSE, st |-> resObj.st, sl |-> <<>>, err |-> NoErr]}
    ELSE IF k.endpoint = "MessagesByHash"
      THEN {[isNil |-> FALSE, st |-> <<>>, sl |-> <<>>, err |-> NoErr],
            NilResult(ToMessagesError)}
    ELSE IF k.endpoint = "do" THEN {NilResult(NoErr)}
    ELSE {[isNil |-> resObj.sl = <<>>, st |-> <<>>, sl |-> resObj.sl, err |-> NoErr]}

\* ------------------------------------------------------------------- state
Callers == 1..NumCallers

VARIABLES
    api,        \* the shared client: BaseURL and HTTPClient
    pc,         \* where each caller's call stands
    call,       \* the call each caller is making
    req,        \* the request do() built
    res,        \* the response the transport returned, per invocation of do()
    served,     \* what the transport answered to each caller
    failure,    \* the error the transport returned to each caller, if any
    stream,     \* the response body stream: "none", "open" or "closed"
    readAll,    \* whether ioutil.ReadAll was called on the body
    envelope,   \* which envelope interpretBody decoded: "none", "ok", "err"
    obj,        \* the caller's response object
    err,        \* the error do() returned
    ret         \* what the endpoint method returned

vars == <<api, pc, call, req, res, served, failure, stream, readAll, envelope, obj, err, ret>>

NoCall == DoCall("", <<>>, "", "", "nil", NilObj)
NoResponse == [StatusCode |-> 0, Body |-> JNull, delivery |-> "none", URL |-> ""]

Init ==
    /\ api \in {NewNodeAPI(u, h) : u \in BaseURLs, h \in HTTPClients}
    /\ pc = [c \in Callers |-> "idle"]
    /\ call = [c \in Callers |-> NoCall]
    /\ req = [c \in Callers |-> <<>>]
    /\ res = [c \in Callers |-> NoResponse]
    /\ served = [c \in Callers |-> NoResponse]
    /\ failure = [c \in Callers |-> NoErr]
    /\ stream = [c \in Callers |-> "none"]
    /\ readAll = [c \in Callers |-> FALSE]
    /\ envelope = [c \in Callers |-> "none"]
    /\ obj = [c \in Callers |-> NilObj]
    /\ err = [c \in Callers |-> NoErr]
    /\ ret = [c \in Callers |-> NilResult(NoErr)]

\* A caller enters an endpoint method (or do() directly); do() marshals
\* and builds the request, and returns at once if either fails.
Call(c, calls) ==
    /\ pc[c] = "idle"
    /\ \E k \in calls :
         LET b == BuildRequest(api, k)
         IN /\ call' = [call EXCEPT ![c] = k]
            /\ obj' = [obj EXCEPT ![c] = k.resObj]
            /\ req' = [req EXCEPT ![c] = b.req]
            /\ err' = [err EXCEPT ![c] = b.err]
            /\ pc' = [pc EXCEPT ![c] = IF b.err = NoErr THEN "sending" ELSE "doReturned"]
    /\ UNCHANGED <<api, res, served, failure, stream, readAll, envelope, ret>>

\* HTTPClient.Do fails: no response exists, do() returns the error
TransportFail(c) ==
    /\ pc[c] = "sending"
    /\ \E e \in TransportErrors :
         /\ failure' = [failure EXCEPT ![c] = e]
         /\ err' = [err EXCEPT ![c] = TransportFailure(e)]
    /\ pc' = [pc EXCEPT ![c] = "doReturned"]
    /\ UNCHANGED <<api, call, req, res, served, stream, readAll, envelope, obj, ret>>

\* HTTPClient.Do returns a response; its body stream is open
TransportRespond(c, responses) ==
    /\ pc[c] = "sending"
    /\ \E r \in responses :
         LET got == [StatusCode |-> r.StatusCode, Body |-> r.Body,
                     delivery |-> r.delivery, URL |-> req[c].URL]
         IN /\ res' = [res EXCEPT ![Frame(c)] = got]
            /\ served' = [served EXCEPT ![c] = got]
    /\ stream' = [stream EXCEPT ![c] = "open"]
    /\ pc' = [pc EXCEPT ![c] = "responded"]
    /\ UNCHANGED <<api, call, req, failure, readAll, envelope, obj, err, ret>>

\* resObj == nil: do() returns nil without looking at the response
ReturnNoResObj(c) ==
    /\ pc[c] = "responded"
    /\ NoResponseRequested(obj[c])
    /\ err' = [err EXCEPT ![c] = NoErr]
    /\ pc' = [pc EXCEPT ![c] = "doReturned"]
    /\ UNCHANGED <<api, call, req, res, served, failure, stream, readAll, envelope, obj, ret>>

\* interpretBody: ioutil.ReadAll returns once the body has ended or broken;
\* on a read error it returns before the Close is deferred
ReadBody(c) ==
    /\ pc[c] = "responded"
    /\ ~NoResponseRequested(obj[c])
    /\ res[Frame(c)].delivery \in {"complete", "broken"}
    /\ readAll' = [readAll EXCEPT ![c] = TRUE]
    /\ IF res[Frame(c)].delivery = "broken"
         THEN /\ err' = [err EXCEPT ![c] =
                           Errorf("unable to read response body: %w", <<>>, ReadError)]
              /\ pc' = [pc EXCEPT ![c] = "doReturned"]
         ELSE /\ err' = err
              /\ pc' = [pc EXCEPT ![c] = "read"]
    /\ UNCHANGED <<api, call, req, res, served, failure, stream, envelope, obj, ret>>

\* interpretBody after the read: decode one envelope, return, and run the
\* deferred Close
Interpret(c) ==
    /\ pc[c] = "read"
    /\ LET r == interpretBody(res[Frame(c)], obj[c])
       IN /\ envelope' = [envelope EXCEPT ![c] = r.envelope]
          /\ err' = [err EXCEPT ![c] = r.err]
          /\ obj' = [obj EXCEPT ![c] = r.decodeTo]
    /\ stream' = [stream EXCEPT ![c] = "closed"]
    /\ pc' = [pc EXCEPT ![c] = "doReturned"]
    /\ UNCHANGED <<api, call, req, res, served, failure, readAll, ret>>

\* the endpoint method returns to its caller
Return(c) ==
    /\ pc[c] = "doReturned"
    /\ \E out \in EndpointReturns(call[c], err[c], obj[c]) :
         ret' = [ret EXCEPT ![c] = out]
    /\ pc' = [pc EXCEPT ![c] = "done"]
    /\ UNCHANGED <<api, call, req, res, served, failure, stream, readAll, envelope, obj, err>>

\* the caller drops the results and is free to make its next call
Finish(c) ==
    /\ pc[c] = "done"
    /\ pc' = [pc EXCEPT ![c] = "idle"]
    /\ call' = [call EXCEPT ![c] = NoCall]
    /\ req' = [req EXCEPT ![c] = <<>>]
    /\ res' = [res EXCEPT ![Frame(c)] = NoResponse]
    /\ served' = [served EXCEPT ![c] = NoResponse]
    /\ failure' = [failure EXCEPT ![c] = NoErr]
    /\ stream' = [stream EXCEPT ![c] = "none"]
    /\ readAll' = [readAll EXCEPT ![c] = FALSE]
    /\ envelope' = [envelope EXCEPT ![c] = "none"]
    /\ obj' = [obj EXCEPT ![c] = NilObj]
    /\ err' = [err EXCEPT ![c] = NoErr]
    /\ ret' = [ret EXCEPT ![c] = NilResult(NoErr)]
    /\ UNCHANGED api

\* One caller, making one call after the other, against every response
Next ==
    \/ Call(1, AllCalls)
    \/ TransportFail(1)
    \/ TransportRespond(1, AllResponses)
    \/ ReturnNoResObj(1)
    \/ ReadBody(1)
    \/ Interpret(1)
    \/ Return(1)
    \/ Finish(1)

Spec == Init /\ [][Next]_vars

\* ConcCalls, ConcResponses: the calls and answers of the concurrent
\* specification, one of each shape
ConcCalls ==
    {Info, AreMessagesReferencedByMilestone(<<<<10>>>>),
     DoCall("do", <<>>, "POST", "/messages", "payload", NilObj)}

ConcResponses ==
    {Response(StatusOK, InfoBody, "complete"),
     Response(StatusNotFound, ErrorBody(404, "no such message"), "complete"),
     Response(StatusOK, JInvalid, "broken")}

\* Several callers share the client; their steps interleave freely
ConcNext ==
    \E c \in Callers :
        \/ Call(c, ConcCalls)
        \/ TransportFail(c)
        \/ TransportRespond(c, ConcResponses)
        \/ ReturnNoResObj(c)
        \/ ReadBody(c)
        \/ Interpret(c)
        \/ Return(c)
        \/ Finish(c)

ConcSpec == Init /\ [][ConcNext]_vars

\* A call that holds a response and was asked for no response object runs
\* on: the goroutine is not waiting for anything
FairSpec == Spec /\ WF_vars(ReturnNoResObj(1))

\* ------------------------------------------------------------------ claims
Returned(c) == pc[c] \in {"doReturned", "done"}

\* the transport handed caller c a response
Responded(c) == served[c] # NoResponse

\* the body of caller c's response arrived completely and was asked for
Decoded(c) ==
    /\ Returned(c)
    /\ Responded(c)
    /\ served[c].delivery = "complete"
    /\ call[c].resObj.kind # "nil"

MappedKinds ==
    {ErrHTTPBadRequest, ErrHTTPUnauthorized, ErrHTTPNotFound,
     ErrHTTPInternalServerError, ErrHTTPNotImplemented, ErrHTTPUnknownError}

\* the body is a success envelope holding n referenced-status entries
HoldsEntries(body, n) ==
    /\ body.t = "obj"
    /\ "data" \in DOMAIN body.o
    /\ body.o.data.t = "arr"
    /\ Len(body.o.data.a) = n
    /\ \A i \in 1..n : body.o.data.a[i] \in RefEntries

\* the status an entry of the node's answer reports
ReportedStatus(entry) ==
    [isReferencedByMilestone |-> entry.o.isReferencedByMilestone.b,
     milestoneIndex |-> entry.o.milestoneIndex.n,
     milestoneTimestamp |-> entry.o.milestoneTimestamp.n]

\* C1: AreMessagesReferencedByMilestone, called with n hashes against a node
\* that answers 200 with a success envelope of n referenced-status entries,
\* returns no error and a sequence of length n whose i-th element is the
\* status the node reported for the i-th hash.
C1_ResultAlignedWithInput ==
    \A c \in Callers :
        (/\ pc[c] = "done"
         /\ call[c].endpoint = "AreMessagesReferencedByMilestone"
         /\ Responded(c)
         /\ served[c].StatusCode = StatusOK
         /\ served[c].delivery = "complete"
         /\ HoldsEntries(served[c].Body, Len(call[c].hashes)))
        => /\ ret[c].err = NoErr
           /\ Len(ret[c].sl) = Len(call[c].hashes)
           /\ \A i \in 1..Len(call[c].hashes) :
                ret[c].sl[i] = ReportedStatus(served[c].Body.o.data.a[i])

\* the kind the status table of the interface section gives a status
KindOfStatus(code) ==
    CASE code = 400 -> ErrHTTPBadRequest
      [] code = 401 -> ErrHTTPUnauthorized
      [] code = 404 -> ErrHTTPNotFound
      [] code = 500 -> ErrHTTPInternalServerError
      [] code = 501 -> ErrHTTPNotImplemented
      [] OTHER -> ErrHTTPUnknownError

\* the message text an error envelope carries, empty when it carries none
MessageOf(body) ==
    IF /\ body.t = "obj"
       /\ "error" \in DOMAIN body.o
       /\ body.o.error.t = "obj"
       /\ "message" \in DOMAIN body.o.error.o
       /\ body.o.error.o.message.t = "str"
      THEN body.o.error.o.message.s
      ELSE ""

\* C2: for every status other than 200 and 201 whose body parses as an error
\* envelope, the generic cycle called with a response object returns an
\* error of the kind the table gives (400 bad request, 401 unauthorized,
\* 404 not found, 500 internal server error, 501 not implemented, unknown
\* error otherwise), carrying the request URL and the server's message.
C2_StatusMapsToKind ==
    \A c \in Callers :
        (/\ Decoded(c)
         /\ served[c].StatusCode \notin {200, 201}
         /\ UnmarshalErr(served[c].Body).err = NoErr)
        => /\ err[c] # NoErr
           /\ \A kind \in MappedKinds :
                Is(err[c], kind) <=> kind = KindOfStatus(served[c].StatusCode)
           /\ err[c][1].args = <<req[c].URL, MessageOf(served[c].Body)>>

C2_Witness ==
    \E c \in Callers :
        /\ Decoded(c)
        /\ served[c].StatusCode = 418
        /\ Is(err[c], ErrHTTPUnknownError)
        /\ err[c][1].args[2] = "invalid hash"

\* C3: the status alone selects the envelope: 200 and 201 both decode the
\* body as a success envelope into the caller's target, with the same result
\* for the same body; every other status decodes it as an error envelope and
\* never writes the target.
C3_StatusSelectsEnvelope ==
    \A c \in Callers :
        Decoded(c) =>
            IF served[c].StatusCode \in {200, 201}
              THEN /\ envelope[c] = "ok"
                   /\ err[c] = UnmarshalOK(served[c].Body, call[c].resObj).err
                   /\ obj[c] = UnmarshalOK(served[c].Body, call[c].resObj).decodeTo
              ELSE /\ envelope[c] = "err"
                   /\ obj[c] = call[c].resObj

C3_Witness ==
    \E c \in Callers :
        /\ Decoded(c)
        /\ served[c].StatusCode = 201
        /\ served[c].Body = InfoBody
        /\ call[c].endpoint = "Info"
        /\ err[c] = NoErr
        /\ obj[c].st.name = "hornet"
        /\ obj[c].st.features = <<"pow">>

\* C4: when the status is neither 200 nor 201 and the body does not parse as
\* an error envelope, the call returns the error-body-decode error and none
\* of the mapped status errors, whatever the status.
C4_UnparsableErrorBody ==
    \A c \in Callers :
        (/\ Decoded(c)
         /\ served[c].StatusCode \notin {200, 201}
         /\ UnmarshalErr(served[c].Body).err # NoErr)
        => /\ err[c] # NoErr
           /\ err[c][1].fmt = "unable to read error from response body: %w"
           /\ Is(err[c], UnmarshalErr(served[c].Body).err)
           /\ \A kind \in MappedKinds : ~Is(err[c], kind)

C4_Witness ==
    \E c \in Callers :
        /\ Decoded(c)
        /\ served[c].StatusCode = 500
        /\ served[c].Body = JInvalid
        /\ Is(err[c], SyntaxError)

\* C5: on every path of a call that obtained a response, the response body
\* has been closed by the time the call returns.
C5_BodyClosedOnReturn ==
    \A c \in Callers :
        (Returned(c) /\ Responded(c)) => stream[c] = "closed"

\* C6: whenever the generic cycle returns an error, the caller's response
\* object is in the state it had before the call; only a call that returns
\* no error modifies it.
C6_ErrorLeavesObjectUntouched ==
    \A c \in Callers :
        (Returned(c) /\ err[c] # NoErr) => obj[c] = call[c].resObj

\* C6 as amended: an error leaves the response object as it was, except a
\* type error of the success decoding into a pointer target, which is
\* reported after the fitting fields were written; an endpoint method that
\* returns an error returns no result.
C6_ErrorLeavesObjectUntouchedUnlessTypeError ==
    \A c \in Callers :
        /\ (Returned(c) /\ err[c] # NoErr)
           => \/ obj[c] = call[c].resObj
              \/ /\ served[c].StatusCode \in {200, 201}
                 /\ call[c].resObj.kind = "ptr"
                 /\ err[c] = UnmarshalTypeError
        /\ (pc[c] = "done" /\ ret[c].err # NoErr) => ret[c].isNil

C6_Witness ==
    \E c \in Callers :
        /\ pc[c] = "done"
        /\ call[c].resObj = PtrObj("NodeInfoResponse", UsedInfo)
        /\ served[c].StatusCode = 200
        /\ served[c].delivery = "complete"
        /\ err[c] = SyntaxError
        /\ obj[c].st = UsedInfo

\* C7: when the transport fails before any response exists, do() returns
\* exactly the transport's error, reads no body and decodes no envelope, and
\* the endpoint method returns no result.
C7_TransportErrorUnchanged ==
    \A c \in Callers :
        (Returned(c) /\ failure[c] # NoErr)
        => /\ err[c] = failure[c]
           /\ ~readAll[c]
           /\ envelope[c] = "none"
           /\ obj[c] = call[c].resObj
           /\ pc[c] = "done" => (ret[c].isNil /\ ret[c].err = failure[c])

C7_Witness ==
    \E c \in Callers :
        /\ pc[c] = "done"
        /\ call[c].endpoint = "Info"
        /\ failure[c] = New("dial tcp: connection refused")
        /\ ret[c].err = failure[c]

\* C8: asked for no response object and handed a response, the generic
\* cycle returns success right after the request was executed, without
\* reading the body, so it returns even when the body never arrives.
C8_NoResponseObjectReturnsAtOnce ==
    /\ [](\A c \in Callers :
            (Returned(c) /\ Responded(c) /\ call[c].resObj.kind = "nil")
            => (err[c] = NoErr /\ ~readAll[c]))
    /\ \A c \in Callers :
         (pc[c] = "responded" /\ obj[c].kind = "nil" /\ res[c].delivery = "never")
         ~> (pc[c] = "doReturned" /\ err[c] = NoErr /\ ~readAll[c])

C8_Witness ==
    \E c \in Callers :
        /\ pc[c] = "doReturned"
        /\ call[c].resObj.kind = "nil"
        /\ served[c].delivery = "never"
        /\ err[c] = NoErr
        /\ ~readAll[c]

\* what do() returns when the call runs alone: its error and the response
\* object afterwards, from the client, the call and the transport's answer
DoAlone(client, k, transportErr, response) ==
    IF BuildRequest(client, k).err # NoErr
      THEN [err |-> BuildRequest(client, k).err, obj |-> k.resObj]
    ELSE IF transportErr # NoErr THEN [err |-> transportErr, obj |-> k.resObj]
    ELSE IF k.resObj.kind = "nil" THEN [err |-> NoErr, obj |-> k.resObj]
    ELSE IF response.delivery = "broken"
      THEN [err |-> Errorf("unable to read response body: %w", <<>>, ReadError),
            obj |-> k.resObj]
    ELSE [err |-> interpretBody(response, k.resObj).err,
          obj |-> interpretBody(response, k.resObj).decodeTo]

\* C9: calls on one shared client are independent under any interleaving:
\* no call writes the client's base URL or transport, and each call's result
\* (value and error) is what the call would give running alone against the
\* same answer.
C9_CallsIndependent ==
    /\ [][api' = api]_vars
    /\ [](\A c \in Callers :
            Returned(c) =>
              LET alone == DoAlone(api, call[c], failure[c], served[c])
              IN /\ err[c] = alone.err
                 /\ obj[c] = alone.obj
                 /\ pc[c] = "done"
                      => ret[c] \in EndpointReturns(call[c], alone.err, alone.obj))

C9_Witness ==
    /\ pc[1] = "done"
    /\ pc[2] = "done"
    /\ call[1] = Info
    /\ call[2] = Info
    /\ served[1].StatusCode = StatusOK
    /\ served[2].StatusCode = StatusNotFound
    /\ ret[1].err = NoErr
    /\ ~ret[1].isNil
    /\ ret[1].st.name = "hornet"
    /\ Is(ret[2].err, ErrHTTPNotFound)

\* C10: asked for no response object, the generic cycle never inspects the
\* status: a response with a status other than 200 and 201 is reported as
\* success, and no mapped status error is produced.
C10_StatusIgnoredWithoutResponseObject ==
    \A c \in Callers :
        (/\ Returned(c)
         /\ Responded(c)
         /\ call[c].resObj.kind = "nil"
         /\ served[c].StatusCode \notin {200, 201})
        => /\ err[c] = NoErr
           /\ envelope[c] = "none"
           /\ pc[c] = "done" => ret[c].err = NoErr

C10_Witness ==
    \E c \in Callers :
        /\ pc[c] = "done"
        /\ call[c].resObj.kind = "nil"
        /\ served[c].StatusCode = 500
        /\ served[c].delivery = "complete"
        /\ ret[c].err = NoErr
====
